---------------------------- MODULE Spec2Model ----------------------------
(***************************************************************************)
(* A model of the bar-by-bar simulation engine of the repository           *)
(* (core/backtester.py, class Backtester).                                 *)
(*                                                                         *)
(* Numbers.  The engine computes with floats; the model computes with the  *)
(* exact values, kept as integers:                                         *)
(*   - a basis-point rate r bps is the fraction r / Scale;                 *)
(*   - a bar's open/close is a whole number of currency units;             *)
(*   - an execution price and avg_entry_price are counted in 1/Scale       *)
(*     units (intended * (Scale +/- slippage_bps));                        *)
(*   - money (cash, trade value, commission, pnl, holdings, portfolio      *)
(*     value) is counted in 1/Scale^2 units, so that every product the     *)
(*     code forms is an integer and no rounding is introduced.             *)
(* A pandas cell is an option: NaN (never assigned) or Num(x).             *)
(* A timestamp is the 1-based position of its bar in the series (the index *)
(* is ordered and unique).  A Python list object is an entry of lists,     *)
(* named by its identity, so that aliasing of the ledger is visible.       *)
(***************************************************************************)
EXTENDS Integers, Sequences, FiniteSets, TLC

\* ------------------------------------------------------------- bounds
MaxBars == 2
MaxRuns == 2

\* ------------------------------------------------- program constants
Scale == 10000

\* ------------------------------------------------------ input domains
Prices == {1, 2}
SignalValues == {"buy", "sell", "hold"}
InitialCapitals == {0, 3}
\* (commission_bps, slippage_bps): the defaults, a frictionless engine, and a
\* rebate: the constructor takes float(commission_bps) of any sign
Rates == {[commission_bps |-> 2, slippage_bps |-> 1],
          [commission_bps |-> 0, slippage_bps |-> 0],
          [commission_bps |-> -2, slippage_bps |-> 1]}
PositionSizes == {0, 1, 2}
ExecutionPriceTypes == {"close", "next_open"}

VARIABLES
    ohlcv_data,        \* the bar series handed to the constructor
    strategy_signals,  \* what strategy.generate_signals returns for it
    cfg,               \* the constructor's keyword arguments
    eng,               \* engine id -> the fields of that Backtester
    lists,             \* list identity -> contents (the trade ledgers)
    returned,          \* engine id -> the results records run returned
    prev,              \* engine id -> snapshot taken before the last bar
    call               \* a caller's import of, and call into, the SMC code

vars == <<ohlcv_data, strategy_signals, cfg, eng, lists, returned, prev, call>>

\* ------------------------------------------------------------ helpers
NaN == <<>>
Num(x) == <<x>>
Val(cell) == cell[1]
Abs(x) == IF x < 0 THEN -x ELSE x
Unit == Scale * Scale

SeqsUpTo(S, n) == UNION {[1..k -> S] : k \in 0..n}

Bars == [open : Prices, close : Prices]

EmptyRow ==
    [signal |-> NaN, position_qty |-> NaN, entry_price |-> NaN,
     trade_pnl |-> NaN, cash |-> NaN, holdings_value |-> NaN,
     portfolio_value |-> NaN]

\* mutant: trade_log is one list of the class, shared by every instance
SharedList(e) == 1

\* self.trade_log = [] allocates a list of its own for every instance.
NewList(e) == e

\* Backtester.__init__
NewEngine(e, data, c) ==
    [initial_capital       |-> c.initial_capital * Unit,
     commission_rate       |-> c.commission_bps,
     slippage_rate         |-> c.slippage_bps,
     default_position_size |-> c.default_position_size,
     execution_price_type  |-> c.execution_price_type,
     positions_df          |-> [k \in 1..Len(data) |-> EmptyRow],
     trade_log             |-> NewList(e),
     current_cash          |-> c.initial_capital * Unit,
     current_position_qty  |-> 0,
     avg_entry_price       |-> 0,
     pc                    |-> "idle",
     error                 |-> "none",
     i                     |-> 0,
     runs                  |-> 0]

NoPrev ==
    [signal |-> "none", bar |-> 0, executed |-> FALSE, price |-> NaN,
     cash |-> 0, qty |-> 0, avg |-> 0, loglen |-> 0, start |-> 0]

\* mutant: under next_open the last bar falls back to its own close
GetExecutionPriceAtClose(en, data, idx, signal_type) ==
    LET intended_price ==
            IF en.execution_price_type = "next_open" /\ idx + 1 <= Len(data)
            THEN data[idx + 1].open
            ELSE data[idx].close
    IN  IF signal_type = "buy"
        THEN Num(intended_price * (Scale + en.slippage_rate))
        ELSE IF signal_type = "sell"
        THEN Num(intended_price * (Scale - en.slippage_rate))
        ELSE Num(intended_price * Scale)

\* mutant: slippage applied in the trader's favour, the two signs exchanged
GetExecutionPriceFavourable(en, data, idx, signal_type) ==
    IF en.execution_price_type = "next_open" /\ idx + 1 > Len(data)
    THEN NaN
    ELSE LET intended_price ==
                 IF en.execution_price_type = "next_open"
                 THEN data[idx + 1].open
                 ELSE data[idx].close
         IN  IF signal_type = "buy"
             THEN Num(intended_price * (Scale - en.slippage_rate))
             ELSE IF signal_type = "sell"
             THEN Num(intended_price * (Scale + en.slippage_rate))
             ELSE Num(intended_price * Scale)

\* ------------------------------------------------ pricing and commission
\* Backtester._get_execution_price; idx is the 1-based bar position.
GetExecutionPrice(en, data, idx, signal_type) ==
    IF en.execution_price_type = "next_open" /\ idx + 1 > Len(data)
    THEN NaN
    ELSE LET intended_price ==
                 IF en.execution_price_type = "next_open"
                 THEN data[idx + 1].open
                 ELSE data[idx].close
         IN  IF signal_type = "buy"
             THEN Num(intended_price * (Scale + en.slippage_rate))
             ELSE IF signal_type = "sell"
             THEN Num(intended_price * (Scale - en.slippage_rate))
             ELSE Num(intended_price * Scale)

\* trade_value = qty_to_trade * execution_price, in money units.
TradeValue(qty_to_trade, execution_price) == qty_to_trade * execution_price * Scale

\* Backtester._calculate_commission
CalculateCommission(en, trade_value) ==
    (Abs(trade_value) * en.commission_rate) \div Scale


\* ------------------------------------------------------- the trade legs
\* The engine fields one bar of run reads and writes, with the ledger's
\* contents and the local trade_pnl.
Working(en, log) ==
    [cash |-> en.current_cash, qty |-> en.current_position_qty,
     avg |-> en.avg_entry_price, log |-> log, trade_pnl |-> 0]

\* mutant: covering a short credits the cash as a sale does
CoverShortCredited(en, st, execution_price, timestamp) ==
    LET qty_to_trade == Abs(st.qty)
        trade_value == TradeValue(qty_to_trade, execution_price)
        commission == CalculateCommission(en, trade_value)
        trade_pnl == qty_to_trade * (st.avg - execution_price) * Scale - commission
        cash == st.cash + (trade_value - commission)
    IN  [cash |-> cash, qty |-> 0, avg |-> 0, trade_pnl |-> trade_pnl,
         log |-> Append(st.log,
                    [timestamp |-> timestamp, type |-> "cover_short",
                     price |-> execution_price, size |-> qty_to_trade,
                     commission |-> commission, pnl |-> trade_pnl,
                     cash |-> cash, portfolio_value |-> cash])]

\* run, buy signal, "Closing a short position"
CoverShort(en, st, execution_price, timestamp) ==
    LET qty_to_trade == Abs(st.qty)
        trade_value == TradeValue(qty_to_trade, execution_price)
        commission == CalculateCommission(en, trade_value)
        trade_pnl == qty_to_trade * (st.avg - execution_price) * Scale - commission
        cash == st.cash - (trade_value + commission)
    IN  [cash |-> cash, qty |-> 0, avg |-> 0, trade_pnl |-> trade_pnl,
         log |-> Append(st.log,
                    [timestamp |-> timestamp, type |-> "cover_short",
                     price |-> execution_price, size |-> qty_to_trade,
                     commission |-> commission, pnl |-> trade_pnl,
                     cash |-> cash, portfolio_value |-> cash])]

\* mutant: the long entry without the funds check
OpenLongUnchecked(en, st, execution_price, timestamp, current_close_price) ==
    LET qty_to_trade == en.default_position_size
        trade_value == TradeValue(qty_to_trade, execution_price)
        commission == CalculateCommission(en, trade_value)
        cash == st.cash - (trade_value + commission)
        qty == st.qty + qty_to_trade
    IN  [cash |-> cash, qty |-> qty, avg |-> execution_price,
         trade_pnl |-> st.trade_pnl,
         log |-> Append(st.log,
                    [timestamp |-> timestamp, type |-> "buy_long",
                     price |-> execution_price, size |-> qty_to_trade,
                     commission |-> commission, pnl |-> 0,
                     cash |-> cash,
                     portfolio_value |-> cash + qty * current_close_price * Unit])]

\* run, buy signal, "Opening a new long": the funds check and the entry
OpenLong(en, st, execution_price, timestamp, current_close_price) ==
    LET qty_to_trade == en.default_position_size
        trade_value == TradeValue(qty_to_trade, execution_price)
        commission == CalculateCommission(en, trade_value)
        cash == st.cash - (trade_value + commission)
        avg == IF st.qty # 0
               THEN (st.avg * st.qty + execution_price * qty_to_trade)
                        \div (st.qty + qty_to_trade)
               ELSE execution_price
        qty == st.qty + qty_to_trade
    IN  IF st.cash >= trade_value + commission
        THEN [cash |-> cash, qty |-> qty, avg |-> avg,
              trade_pnl |-> st.trade_pnl,
              log |-> Append(st.log,
                    [timestamp |-> timestamp, type |-> "buy_long",
                     price |-> execution_price, size |-> qty_to_trade,
                     commission |-> commission, pnl |-> 0,
                     cash |-> cash,
                     portfolio_value |-> cash + qty * current_close_price * Unit])]
        ELSE st

\* mutant: a buy adds to a long position instead of opening only from flat
BuySignalAdding(en, st, execution_price, timestamp, current_close_price) ==
    LET covered == IF st.qty < 0
                   THEN CoverShort(en, st, execution_price, timestamp)
                   ELSE st
    IN  IF covered.qty >= 0
        THEN OpenLong(en, covered, execution_price, timestamp, current_close_price)
        ELSE covered

\* run, the whole buy branch: cover first, then open when flat
BuySignal(en, st, execution_price, timestamp, current_close_price) ==
    LET covered == IF st.qty < 0
                   THEN CoverShort(en, st, execution_price, timestamp)
                   ELSE st
    IN  IF covered.qty = 0
        THEN OpenLong(en, covered, execution_price, timestamp, current_close_price)
        ELSE covered

\* mutant: the long's realized pnl is gross, the closing commission left out
CloseLongGross(en, st, execution_price, timestamp) ==
    LET qty_to_trade == st.qty
        trade_value == TradeValue(qty_to_trade, execution_price)
        commission == CalculateCommission(en, trade_value)
        trade_pnl == qty_to_trade * (execution_price - st.avg) * Scale
        cash == st.cash + (trade_value - commission)
    IN  [cash |-> cash, qty |-> 0, avg |-> 0, trade_pnl |-> trade_pnl,
         log |-> Append(st.log,
                    [timestamp |-> timestamp, type |-> "sell_long",
                     price |-> execution_price, size |-> qty_to_trade,
                     commission |-> commission, pnl |-> trade_pnl,
                     cash |-> cash, portfolio_value |-> cash])]

\* run, sell signal, "Closing a long position"
CloseLong(en, st, execution_price, timestamp) ==
    LET qty_to_trade == st.qty
        trade_value == TradeValue(qty_to_trade, execution_price)
        commission == CalculateCommission(en, trade_value)
        trade_pnl == qty_to_trade * (execution_price - st.avg) * Scale - commission
        cash == st.cash + (trade_value - commission)
    IN  [cash |-> cash, qty |-> 0, avg |-> 0, trade_pnl |-> trade_pnl,
         log |-> Append(st.log,
                    [timestamp |-> timestamp, type |-> "sell_long",
                     price |-> execution_price, size |-> qty_to_trade,
                     commission |-> commission, pnl |-> trade_pnl,
                     cash |-> cash, portfolio_value |-> cash])]

\* mutant: the short entry guarded by the funds check of the long entry
OpenShortChecked(en, st, execution_price, timestamp, current_close_price) ==
    LET qty_to_trade == en.default_position_size
        trade_value == TradeValue(qty_to_trade, execution_price)
        commission == CalculateCommission(en, trade_value)
        cash == st.cash + (trade_value - commission)
        qty == st.qty - qty_to_trade
    IN  IF st.cash >= trade_value + commission
        THEN [cash |-> cash, qty |-> qty, avg |-> execution_price,
              trade_pnl |-> st.trade_pnl,
              log |-> Append(st.log,
                    [timestamp |-> timestamp, type |-> "sell_short",
                     price |-> execution_price, size |-> qty_to_trade,
                     commission |-> commission, pnl |-> 0,
                     cash |-> cash,
                     portfolio_value |-> cash + qty * current_close_price * Unit])]
        ELSE st

\* mutant: the short entry clears the bar's trade_pnl, so a reversal's row
\* loses the pnl of the long it closed
OpenShortResetting(en, st, execution_price, timestamp, current_close_price) ==
    LET qty_to_trade == en.default_position_size
        trade_value == TradeValue(qty_to_trade, execution_price)
        commission == CalculateCommission(en, trade_value)
        cash == st.cash + (trade_value - commission)
        qty == st.qty - qty_to_trade
    IN  [cash |-> cash, qty |-> qty, avg |-> execution_price,
         trade_pnl |-> 0,
         log |-> Append(st.log,
                    [timestamp |-> timestamp, type |-> "sell_short",
                     price |-> execution_price, size |-> qty_to_trade,
                     commission |-> commission, pnl |-> 0,
                     cash |-> cash,
                     portfolio_value |-> cash + qty * current_close_price * Unit])]

\* run, sell signal, "Opening a new short position": no funds check
OpenShort(en, st, execution_price, timestamp, current_close_price) ==
    LET qty_to_trade == en.default_position_size
        trade_value == TradeValue(qty_to_trade, execution_price)
        commission == CalculateCommission(en, trade_value)
        cash == st.cash + (trade_value - commission)
        avg == IF st.qty # 0
               THEN (st.avg * Abs(st.qty) + execution_price * qty_to_trade)
                        \div (Abs(st.qty) + qty_to_trade)
               ELSE execution_price
        qty == st.qty - qty_to_trade
    IN  [cash |-> cash, qty |-> qty, avg |-> avg,
         trade_pnl |-> st.trade_pnl,
         log |-> Append(st.log,
                    [timestamp |-> timestamp, type |-> "sell_short",
                     price |-> execution_price, size |-> qty_to_trade,
                     commission |-> commission, pnl |-> 0,
                     cash |-> cash,
                     portfolio_value |-> cash + qty * current_close_price * Unit])]

\* mutant: the short entry is an elif of the close, so a reversal only closes
SellSignalElif(en, st, execution_price, timestamp, current_close_price) ==
    IF st.qty > 0
    THEN CloseLong(en, st, execution_price, timestamp)
    ELSE IF st.qty = 0
    THEN OpenShort(en, st, execution_price, timestamp, current_close_price)
    ELSE st

\* mutant: a sell adds to a short position instead of opening only from flat
SellSignalAdding(en, st, execution_price, timestamp, current_close_price) ==
    LET closed == IF st.qty > 0
                  THEN CloseLong(en, st, execution_price, timestamp)
                  ELSE st
    IN  IF closed.qty <= 0
        THEN OpenShort(en, closed, execution_price, timestamp, current_close_price)
        ELSE closed

\* run, the whole sell branch: close first, then open when flat
SellSignal(en, st, execution_price, timestamp, current_close_price) ==
    LET closed == IF st.qty > 0
                  THEN CloseLong(en, st, execution_price, timestamp)
                  ELSE st
    IN  IF closed.qty = 0
        THEN OpenShort(en, closed, execution_price, timestamp, current_close_price)
        ELSE closed

\* ------------------------------------------------------ valuation rows
\* run, top of the loop body: carry forward (i > 0 only) and mark to market
MarkToMarket(en, idx, current_close_price) ==
    LET row == en.positions_df[idx]
        carried ==
            IF idx > 1
            THEN [row EXCEPT !.cash = en.positions_df[idx - 1].cash,
                             !.position_qty = Num(en.current_position_qty),
                             !.entry_price = Num(en.avg_entry_price)]
            ELSE row
        holdings == en.current_position_qty * current_close_price * Unit
    IN  [carried EXCEPT !.holdings_value = Num(holdings),
                        !.portfolio_value = Num(Val(carried.cash) + holdings)]

\* mutant: the row's portfolio_value written without the cash
UpdateRowHoldingsOnly(row, st, current_close_price) ==
    [row EXCEPT
        !.trade_pnl = IF st.trade_pnl # 0 THEN Num(st.trade_pnl) ELSE NaN,
        !.position_qty = Num(st.qty),
        !.entry_price = IF st.qty # 0 THEN Num(st.avg) ELSE NaN,
        !.cash = Num(st.cash),
        !.holdings_value = Num(st.qty * current_close_price * Unit),
        !.portfolio_value = Num(st.qty * current_close_price * Unit)]

\* run, bottom of the loop body: the row after the bar's trades
UpdateRow(row, st, current_close_price) ==
    [row EXCEPT
        !.trade_pnl = IF st.trade_pnl # 0 THEN Num(st.trade_pnl) ELSE NaN,
        !.position_qty = Num(st.qty),
        !.entry_price = IF st.qty # 0 THEN Num(st.avg) ELSE NaN,
        !.cash = Num(st.cash),
        !.holdings_value = Num(st.qty * current_close_price * Unit),
        !.portfolio_value = Num(st.cash + st.qty * current_close_price * Unit)]


\* ------------------------------------------------------------ metrics
RECURSIVE SumTradePnl(_, _)
\* positions_df['trade_pnl'].sum(skipna=True) over rows 1..k
SumTradePnl(df, k) ==
    IF k = 0 THEN 0
    ELSE SumTradePnl(df, k - 1)
            + (IF df[k].trade_pnl = NaN THEN 0 ELSE Val(df[k].trade_pnl))

\* mutant: a closed trade is a closing leg, whatever its pnl
ClosedLegs(log) == {k \in 1..Len(log) : log[k].type \in {"sell_long", "cover_short"}}

\* the trade_log entries counted by the loop over self.trade_log
ClosedTrades(log) == {k \in 1..Len(log) : log[k].pnl # 0}

\* win_rate: winning_trades / num_closed_trades * 100 as the exact fraction
\* num / den, and 0 when no trade closed
WinRate(winning_trades, num_closed_trades) ==
    IF num_closed_trades > 0
    THEN [num |-> winning_trades * 100, den |-> num_closed_trades]
    ELSE [num |-> 0, den |-> 1]

\* A float64 quotient n / d, kept exact: the fraction num / den with den > 0
\* (a zero as 0 / 1), or what numpy gives on a zero divisor: nan for 0 / 0 and
\* an infinity of the numerator's sign otherwise.
Quotient(n, d) ==
    IF d = 0
    THEN [kind |-> IF n = 0 THEN "nan" ELSE IF n < 0 THEN "-inf" ELSE "inf",
          num |-> 0, den |-> 0]
    ELSE IF n = 0 THEN [kind |-> "num", num |-> 0, den |-> 1]
    ELSE IF d > 0 THEN [kind |-> "num", num |-> n, den |-> d]
    ELSE [kind |-> "num", num |-> 0 - n, den |-> 0 - d]

RECURSIVE FracLess(_, _, _, _)
\* a / b < c / d for b > 0 and d > 0, by the whole parts and then the
\* remainders, so that no product leaves the integer range
FracLess(a, b, c, d) ==
    LET qa == a \div b
        qc == c \div d
        ra == a - qa * b
        rc == c - qc * d
    IN  IF qa # qc THEN qa < qc
        ELSE IF rc = 0 THEN FALSE
        ELSE IF ra = 0 THEN TRUE
        ELSE FracLess(d, rc, b, ra)

\* x < y for two quotients, neither nan
QuotientLess(x, y) ==
    IF x.kind = "-inf" THEN y.kind # "-inf"
    ELSE IF y.kind = "inf" THEN x.kind # "inf"
    ELSE IF x.kind = "inf" \/ y.kind = "-inf" THEN FALSE
    ELSE FracLess(x.num, x.den, y.num, y.den)

\* portfolio_values.expanding(min_periods=1).max() at row k
Peak(df, k) ==
    LET values == {Val(df[j].portfolio_value) : j \in 1..k}
    IN  CHOOSE m \in values : \A v \in values : v <= m

\* drawdown = (portfolio_values - peak) / peak, row by row
Drawdown(df) ==
    [k \in 1..Len(df) |->
        Quotient(Val(df[k].portfolio_value) - Peak(df, k), Peak(df, k))]

\* max_drawdown = drawdown.min() * 100: min skips nan and is nan when
\* nothing is left; the record stands for times * num / den.
MaxDrawdown(df) ==
    LET drawdown == Drawdown(df)
        defined == {k \in 1..Len(df) : drawdown[k].kind # "nan"}
        least == CHOOSE k \in defined :
                    \A j \in defined :
                        /\ ~QuotientLess(drawdown[j], drawdown[k])
                        /\ j < k => QuotientLess(drawdown[k], drawdown[j])
    IN  IF defined = {}
        THEN [kind |-> "nan", num |-> 0, den |-> 0, times |-> 100]
        ELSE [kind |-> drawdown[least].kind, num |-> drawdown[least].num,
              den |-> drawdown[least].den, times |-> 100]

\* Backtester.calculate_performance_metrics; "trade_log" is the engine's own
\* list object, not a copy of it.
CalculatePerformanceMetrics(en, log) ==
    [initial_capital |-> en.initial_capital,
     final_portfolio_value |->
        IF Len(en.positions_df) > 0
        THEN Val(en.positions_df[Len(en.positions_df)].portfolio_value)
        ELSE en.initial_capital,
     total_pnl_realized |-> SumTradePnl(en.positions_df, Len(en.positions_df)),
     num_closed_trades |-> Cardinality(ClosedTrades(log)),
     winning_trades |-> Cardinality({k \in ClosedTrades(log) : log[k].pnl > 0}),
     losing_trades |-> Cardinality({k \in ClosedTrades(log) : log[k].pnl < 0}),
     win_rate_pct |->
        WinRate(Cardinality({k \in ClosedTrades(log) : log[k].pnl > 0}),
                Cardinality(ClosedTrades(log))),
     max_drawdown_pct |-> MaxDrawdown(en.positions_df),
     trade_log |-> en.trade_log]

\* ------------------------------------------------------------- actions
\* what one bar leaves for the next to compare with; start is the length the
\* ledger had when the run began
Snapshot(en, log, signal, price, start) ==
    [signal |-> signal, bar |-> en.i, executed |-> price # NaN, price |-> price,
     cash |-> en.current_cash, qty |-> en.current_position_qty,
     avg |-> en.avg_entry_price, loglen |-> Len(log), start |-> start]

\* mutant: only a signal list shorter than the series is refused
SignalsCover(signals, data) == Len(signals) >= Len(data)

\* run, the length check: len(signals) != len(self.ohlcv_data) raises
SignalsMatch(signals, data) == Len(signals) = Len(data)

\* run may be called on a new engine, and again on one whose run has ended.
CanRun(e) ==
    \/ eng[e].pc = "idle"
    \/ eng[e].pc \in {"done", "raised"} /\ eng[e].runs < MaxRuns

\* run, up to the loop: the length check raises ValueError; an empty series
\* raises IndexError at the read of the first close, after the columns are set.
RunRaise(e) ==
    /\ CanRun(e)
    /\ \/ ~SignalsMatch(strategy_signals, ohlcv_data)
       \/ Len(ohlcv_data) = 0
    /\ eng' = [eng EXCEPT ![e].pc = "raised",
                          ![e].runs = @ + 1,
                          ![e].error =
                              IF ~SignalsMatch(strategy_signals, ohlcv_data)
                              THEN "ValueError" ELSE "IndexError"]
    /\ prev' = [prev EXCEPT
            ![e] = [NoPrev EXCEPT !.start = Len(lists[eng[e].trade_log])]]
    /\ UNCHANGED <<ohlcv_data, strategy_signals, cfg, lists, returned, call>>

\* run, up to the loop: signals taken, the four columns set for every row
RunBegin(e) ==
    /\ CanRun(e)
    /\ SignalsMatch(strategy_signals, ohlcv_data)
    /\ Len(ohlcv_data) > 0
    /\ eng' = [eng EXCEPT
            ![e].positions_df =
                [k \in 1..Len(ohlcv_data) |->
                    [eng[e].positions_df[k] EXCEPT
                        !.signal = Num(strategy_signals[k]),
                        !.cash = Num(eng[e].initial_capital),
                        !.holdings_value = Num(0),
                        !.portfolio_value = Num(eng[e].initial_capital)]],
            ![e].pc = "loop",
            ![e].error = "none",
            ![e].i = 1,
            ![e].runs = @ + 1]
    /\ prev' = [prev EXCEPT
            ![e] = [NoPrev EXCEPT !.start = Len(lists[eng[e].trade_log])]]
    /\ UNCHANGED <<ohlcv_data, strategy_signals, cfg, lists, returned, call>>

InLoop(e) == eng[e].pc = "loop" /\ eng[e].i <= Len(ohlcv_data)
SignalAt(e) == Val(eng[e].positions_df[eng[e].i].signal)
PriceAt(e) == GetExecutionPrice(eng[e], ohlcv_data, eng[e].i, SignalAt(e))
CloseAt(e) == ohlcv_data[eng[e].i].close

\* one loop iteration whose trades leave the working fields st
Commit(e, st) ==
    /\ eng' = [eng EXCEPT
            ![e].positions_df[eng[e].i] =
                UpdateRow(MarkToMarket(eng[e], eng[e].i, CloseAt(e)), st, CloseAt(e)),
            ![e].current_cash = st.cash,
            ![e].current_position_qty = st.qty,
            ![e].avg_entry_price = st.avg,
            ![e].i = @ + 1]
    /\ lists' = [lists EXCEPT ![eng[e].trade_log] = st.log]
    /\ prev' = [prev EXCEPT
            ![e] = Snapshot(eng[e], lists[eng[e].trade_log], SignalAt(e), PriceAt(e),
                            prev[e].start)]
    /\ UNCHANGED <<ohlcv_data, strategy_signals, cfg, returned, call>>

\* one loop iteration with no execution price: mark to market, then continue
BarSkip(e) ==
    /\ InLoop(e)
    /\ PriceAt(e) = NaN
    /\ eng' = [eng EXCEPT
            ![e].positions_df[eng[e].i] = MarkToMarket(eng[e], eng[e].i, CloseAt(e)),
            ![e].i = @ + 1]
    /\ prev' = [prev EXCEPT
            ![e] = Snapshot(eng[e], lists[eng[e].trade_log], SignalAt(e), PriceAt(e),
                            prev[e].start)]
    /\ UNCHANGED <<ohlcv_data, strategy_signals, cfg, lists, returned, call>>

\* one loop iteration on a buy signal
BarBuy(e) ==
    /\ InLoop(e)
    /\ PriceAt(e) # NaN
    /\ SignalAt(e) = "buy"
    /\ Commit(e, BuySignal(eng[e], Working(eng[e], lists[eng[e].trade_log]),
                           Val(PriceAt(e)), eng[e].i, CloseAt(e)))

\* one loop iteration on a sell signal
BarSell(e) ==
    /\ InLoop(e)
    /\ PriceAt(e) # NaN
    /\ SignalAt(e) = "sell"
    /\ Commit(e, SellSignal(eng[e], Working(eng[e], lists[eng[e].trade_log]),
                            Val(PriceAt(e)), eng[e].i, CloseAt(e)))

\* mutant: the sell branch is an else, so every signal that is not buy sells
BarHoldAsSell(e) ==
    /\ InLoop(e)
    /\ PriceAt(e) # NaN
    /\ SignalAt(e) \notin {"buy", "sell"}
    /\ Commit(e, SellSignal(eng[e], Working(eng[e], lists[eng[e].trade_log]),
                            Val(PriceAt(e)), eng[e].i, CloseAt(e)))

\* one loop iteration on any other signal
BarHold(e) ==
    /\ InLoop(e)
    /\ PriceAt(e) # NaN
    /\ SignalAt(e) \notin {"buy", "sell"}
    /\ Commit(e, Working(eng[e], lists[eng[e].trade_log]))

\* run, after the loop: return self.calculate_performance_metrics()
Return(e) ==
    /\ eng[e].pc = "loop"
    /\ eng[e].i > Len(ohlcv_data)
    /\ returned' = [returned EXCEPT
            ![e] = Append(@, CalculatePerformanceMetrics(eng[e], lists[eng[e].trade_log]))]
    /\ eng' = [eng EXCEPT ![e].pc = "done"]
    /\ UNCHANGED <<ohlcv_data, strategy_signals, cfg, lists, prev, call>>

\* ------------------------------------------------------ specifications
Configs ==
    {[initial_capital |-> c, commission_bps |-> r.commission_bps,
      slippage_bps |-> r.slippage_bps, default_position_size |-> q,
      execution_price_type |-> t] :
        c \in InitialCapitals, r \in Rates, q \in PositionSizes,
        t \in ExecutionPriceTypes}

\* no caller of the SMC code: the engine is handed a strategy object
NoCall == [entry |-> "none", columns |-> {}, pc |-> "none", classes |-> <<>>,
           error |-> "none", imports |-> 0, result |-> <<>>,
           zones |-> <<>>, trace |-> <<>>, prefixes |-> <<>>]

\* the engines of ids, constructed on one bar series, strategy and config
Construct(ids) ==
    /\ ohlcv_data \in SeqsUpTo(Bars, MaxBars)
    /\ strategy_signals \in SeqsUpTo(SignalValues, MaxBars)
    /\ cfg \in Configs
    /\ eng = [e \in ids |-> NewEngine(e, ohlcv_data, cfg)]
    /\ lists = [l \in {NewList(e) : e \in ids} |-> <<>>]
    /\ returned = [e \in ids |-> <<>>]
    /\ prev = [e \in ids |-> NoPrev]
    /\ call = NoCall

\* one engine, run up to MaxRuns times
Init == Construct({1})

Next ==
    \/ \E e \in DOMAIN eng : RunRaise(e)
    \/ \E e \in DOMAIN eng : RunBegin(e)
    \/ \E e \in DOMAIN eng : BarSkip(e)
    \/ \E e \in DOMAIN eng : BarBuy(e)
    \/ \E e \in DOMAIN eng : BarSell(e)
    \/ \E e \in DOMAIN eng : BarHold(e)
    \/ \E e \in DOMAIN eng : Return(e)

Spec == Init /\ [][Next]_vars

\* two engines constructed on the same bars, strategy and configuration,
\* each run once, in any interleaving of their bars
InitTwo == Construct({1, 2})

NextTwo ==
    \/ \E e \in DOMAIN eng : eng[e].pc = "idle" /\ RunRaise(e)
    \/ \E e \in DOMAIN eng : eng[e].pc = "idle" /\ RunBegin(e)
    \/ \E e \in DOMAIN eng : BarSkip(e)
    \/ \E e \in DOMAIN eng : BarBuy(e)
    \/ \E e \in DOMAIN eng : BarSell(e)
    \/ \E e \in DOMAIN eng : BarHold(e)
    \/ \E e \in DOMAIN eng : Return(e)

SpecTwo == InitTwo /\ [][NextTwo]_vars

\* ------------------------------------------- the SMC code and its callers
\* Bars as the detectors and strategies read them: open, high, low, close.
MaxCandles == 2
MaxImports == 2
CandlePrices == 1..3
Candles ==
    {c \in [open : CandlePrices, high : CandlePrices,
            low : CandlePrices, close : CandlePrices] :
        /\ c.low <= c.open /\ c.open <= c.high
        /\ c.low <= c.close /\ c.close <= c.high}

\* the columns the detectors need, and the frames that lack one of them
EssentialCols == {"open", "high", "low", "close"}
MalformedCols == {EssentialCols \ {col} : col \in EssentialCols}

\* What a caller asks of the SMC code: one of the two detectors, or the
\* signals of one of the two registered strategies.
Detectors == {"identify_order_blocks", "identify_fair_value_gaps"}
Strategies == {"OrderBlockEntry", "FairValueGapEntry"}
MinimumBars == [s \in Strategies |-> IF s = "OrderBlockEntry" THEN 2 ELSE 3]

\* The classes core/smc_concepts.py defines before its functions, in source
\* order. For a dataclass, defaults[k] says whether its k-th field is given a
\* default value in the class body.
ConceptClasses ==
    << [name |-> "StructureType", dataclass |-> FALSE, defaults |-> <<>>],
       [name |-> "Trend", dataclass |-> FALSE, defaults |-> <<>>],
       [name |-> "Candle", dataclass |-> TRUE,
        defaults |-> <<FALSE, FALSE, FALSE, FALSE, FALSE, TRUE>>],
       [name |-> "MarketStructurePoint", dataclass |-> TRUE,
        defaults |-> <<FALSE, FALSE, FALSE, TRUE>>],
       [name |-> "OrderBlock", dataclass |-> TRUE,
        defaults |-> <<FALSE, FALSE, FALSE, FALSE, TRUE, FALSE, TRUE, TRUE>>],
       [name |-> "FairValueGap", dataclass |-> TRUE,
        defaults |-> <<FALSE, FALSE, FALSE, FALSE, FALSE, TRUE, TRUE>>],
       [name |-> "LiquidityPoint", dataclass |-> TRUE,
        defaults |-> <<FALSE, FALSE, FALSE, TRUE>>] >>

\* @dataclass on a class body: building __init__ raises TypeError when a field
\* without a default follows a field with one.
DataclassAccepts(defaults) ==
    \A i \in DOMAIN defaults : \A j \in DOMAIN defaults :
        i < j /\ defaults[i] => defaults[j]

\* the class statement the import of core.smc_concepts executes next
NextClass == ConceptClasses[Len(call.classes) + 1]

\* A caller imports the entry it wants: the detectors from core.smc_concepts,
\* the strategies through the strategies package, whose example_strategy_1
\* imports core.smc_concepts at its top. Either way the module body runs.
\* columns are the essential columns the caller's frame has once its column
\* names are put in lower case. result is what the call returns; zones and
\* trace are the locals of generate_signals, for a caller that watches them:
\* the detector's list as the strategy holds it, and for each bar of the loop
\* the position before and after it, the active zones after the scan (as
\* positions in zones) and the branch that fired.
NewCall(entry, columns) ==
    [entry |-> entry, columns |-> columns, pc |-> "import", classes |-> <<>>,
     error |-> "none", imports |-> 1, result |-> <<>>,
     zones |-> <<>>, trace |-> <<>>, prefixes |-> <<>>]

Importing ==
    /\ call.pc = "import"
    /\ Len(call.classes) < Len(ConceptClasses)

\* one class statement of the module body executes
DefineClass ==
    /\ Importing
    /\ NextClass.dataclass => DataclassAccepts(NextClass.defaults)
    /\ call' = [call EXCEPT !.classes = Append(@, NextClass.name)]
    /\ UNCHANGED <<ohlcv_data, strategy_signals, cfg, eng, lists, returned, prev>>

\* a class statement raises: the import fails, the half-built module is
\* dropped, and the caller has neither the detectors nor the strategies
DefineRaise ==
    /\ Importing
    /\ NextClass.dataclass /\ ~DataclassAccepts(NextClass.defaults)
    /\ call' = [call EXCEPT !.pc = "raised", !.error = "TypeError",
                            !.classes = <<>>]
    /\ UNCHANGED <<ohlcv_data, strategy_signals, cfg, eng, lists, returned, prev>>

\* the caller imports again; the module body runs from its first statement
ImportAgain ==
    /\ call.pc = "raised"
    /\ call.imports < MaxImports
    /\ call' = [call EXCEPT !.pc = "import", !.error = "none",
                            !.imports = @ + 1]
    /\ UNCHANGED <<ohlcv_data, strategy_signals, cfg, eng, lists, returned, prev>>

\* a caller with a bar series, about to import the entry it will call
InitCall ==
    /\ ohlcv_data \in SeqsUpTo(Candles, MaxCandles)
    /\ call \in {NewCall(entry, EssentialCols) : entry \in Detectors \cup Strategies}
              \cup {NewCall(entry, columns) : entry \in Detectors,
                                              columns \in MalformedCols}
    /\ strategy_signals = <<>>
    /\ cfg \in {c \in Configs : c.commission_bps = 0 /\ c.initial_capital = 0
                                   /\ c.default_position_size = 0
                                   /\ c.execution_price_type = "close"}
    /\ eng = <<>>
    /\ lists = <<>>
    /\ returned = <<>>
    /\ prev = <<>>

NextCall ==
    \/ DefineClass
    \/ DefineRaise
    \/ ImportAgain

SpecCall == InitCall /\ [][NextCall]_vars

\* -------------------------------------------------------------- claims
Ledger(e) == lists[eng[e].trade_log]
Size(e) == eng[e].default_position_size
\* rows of the current run that the loop has been through
Processed(e) ==
    IF eng[e].pc = "loop" THEN eng[e].i - 1
    ELSE IF eng[e].pc = "done" THEN Len(eng[e].positions_df)
    ELSE 0
\* the last bar of engine e had an execution price and carried signal sig
Acted(e, sig) == prev[e].executed /\ prev[e].signal = sig
\* cost of opening default_position_size units at the last bar's price
EntryValue(e) == TradeValue(Size(e), Val(prev[e].price))
EntryCommission(e) == CalculateCommission(eng[e], EntryValue(e))
\* the engine fields and the ledger are as they were before the last bar
Untouched(e) ==
    /\ Len(Ledger(e)) = prev[e].loglen
    /\ eng[e].current_cash = prev[e].cash
    /\ eng[e].current_position_qty = prev[e].qty
    /\ eng[e].avg_entry_price = prev[e].avg
    /\ eng[e].error = "none"

\* C1: every ValuationRow the loop has been through has
\* portfolio_value = cash + position_qty * close and
\* holdings_value = position_qty * close, the skipped last bar of next_open
\* included.
CashConservation ==
    \A e \in DOMAIN eng : \A k \in 1..Processed(e) :
        LET row == eng[e].positions_df[k]
            close == ohlcv_data[k].close
        IN  /\ row.position_qty # NaN
            /\ row.cash # NaN
            /\ row.holdings_value # NaN
            /\ row.portfolio_value # NaN
            /\ Val(row.holdings_value) = Val(row.position_qty) * close * Unit
            /\ Val(row.portfolio_value)
                  = Val(row.cash) + Val(row.position_qty) * close * Unit

\* C2: in every reachable engine state, current_position_qty = 0 implies
\* avg_entry_price = 0.
PositionInvariant ==
    \A e \in DOMAIN eng :
        eng[e].current_position_qty = 0 => eng[e].avg_entry_price = 0

\* C3: a sell while long appends exactly sell_long (the whole position) then
\* sell_short, both stamped with the bar; a buy while short appends
\* cover_short (the whole position) and then, exactly when the cash left
\* after covering affords it, buy_long.  The opening leg starts from flat:
\* its record values exactly default_position_size units.
ReversalOrdering ==
    \A e \in DOMAIN eng :
        LET log == Ledger(e)
            n == prev[e].loglen
            close == ohlcv_data[prev[e].bar].close
        IN  /\ Acted(e, "sell") /\ prev[e].qty > 0 =>
                /\ Len(log) = n + 2
                /\ log[n + 1].type = "sell_long"
                /\ log[n + 1].size = prev[e].qty
                /\ log[n + 1].timestamp = prev[e].bar
                /\ log[n + 1].portfolio_value = log[n + 1].cash
                /\ log[n + 2].type = "sell_short"
                /\ log[n + 2].timestamp = prev[e].bar
                /\ log[n + 2].portfolio_value
                      = log[n + 2].cash - Size(e) * close * Unit
                /\ eng[e].current_position_qty = -Size(e)
            /\ Acted(e, "buy") /\ prev[e].qty < 0 =>
                /\ Len(log) >= n + 1
                /\ log[n + 1].type = "cover_short"
                /\ log[n + 1].size = -prev[e].qty
                /\ log[n + 1].timestamp = prev[e].bar
                /\ log[n + 1].portfolio_value = log[n + 1].cash
                /\ IF log[n + 1].cash >= EntryValue(e) + EntryCommission(e)
                   THEN /\ Len(log) = n + 2
                        /\ log[n + 2].type = "buy_long"
                        /\ log[n + 2].timestamp = prev[e].bar
                        /\ log[n + 2].portfolio_value
                              = log[n + 2].cash + Size(e) * close * Unit
                        /\ eng[e].current_position_qty = Size(e)
                   ELSE /\ Len(log) = n + 1
                        /\ eng[e].current_position_qty = 0

\* C3 witness: a short has just been reversed into a long by two records,
\* in a ledger that already holds a long reversed into a short.
ReversalWitness ==
    \E e \in DOMAIN eng :
        /\ Acted(e, "buy") /\ prev[e].qty < 0
        /\ Len(Ledger(e)) = prev[e].loglen + 2
        /\ \E k \in 1..(prev[e].loglen - 1) :
              /\ Ledger(e)[k].type = "sell_long"
              /\ Ledger(e)[k + 1].type = "sell_short"
              /\ Ledger(e)[k + 1].timestamp = Ledger(e)[k].timestamp

\* C4: a buy while flat with cash < trade_value + commission raises nothing,
\* appends nothing and leaves cash, position and average entry price alone.
InsufficientFundsNoOp ==
    \A e \in DOMAIN eng :
        (/\ Acted(e, "buy")
         /\ prev[e].qty = 0
         /\ prev[e].cash < EntryValue(e) + EntryCommission(e))
        => Untouched(e) /\ eng[e].pc # "raised"

\* C4 witness: such a buy has been processed, for a position size above 0.
InsufficientFundsWitness ==
    \E e \in DOMAIN eng :
        /\ Acted(e, "buy")
        /\ prev[e].qty = 0
        /\ Size(e) > 0
        /\ prev[e].cash < EntryValue(e) + EntryCommission(e)

\* C5: a sell while flat, whatever the cash, opens a short of
\* default_position_size units, appends one sell_short record and raises cash
\* by trade_value - commission.
ShortEntryNeverBlocked ==
    \A e \in DOMAIN eng :
        Acted(e, "sell") /\ prev[e].qty = 0 =>
            /\ eng[e].current_position_qty = -Size(e)
            /\ Len(Ledger(e)) = prev[e].loglen + 1
            /\ Ledger(e)[Len(Ledger(e))].type = "sell_short"
            /\ Ledger(e)[Len(Ledger(e))].size = Size(e)
            /\ Ledger(e)[Len(Ledger(e))].timestamp = prev[e].bar
            /\ eng[e].current_cash
                  = prev[e].cash + (EntryValue(e) - EntryCommission(e))

\* C5 witness: a short has been opened from a negative cash balance.
ShortEntryWitness ==
    \E e \in DOMAIN eng :
        /\ Acted(e, "sell")
        /\ prev[e].qty = 0
        /\ prev[e].cash < 0
        /\ Size(e) > 0
        /\ eng[e].current_position_qty < 0

\* C6: a buy while long, or a sell while short, appends nothing and leaves
\* cash, position and average entry price alone.
SameDirectionNoOp ==
    \A e \in DOMAIN eng :
        \/ Acted(e, "buy") /\ prev[e].qty > 0
        \/ Acted(e, "sell") /\ prev[e].qty < 0
        => Untouched(e)

\* C6 witness: a buy has been processed, with an execution price, by an
\* engine that was long.
SameDirectionWitness ==
    \E e \in DOMAIN eng :
        /\ Acted(e, "buy")
        /\ prev[e].qty > 0
        /\ Len(Ledger(e)) > 0

\* C7: under next_open the final bar executes nothing (ledger, cash, position
\* and average entry price as before the bar), and every executed leg is
\* priced from the open of the bar after the one it is stamped with.
NextOpenLastBar ==
    \A e \in DOMAIN eng :
        eng[e].execution_price_type = "next_open" =>
            /\ prev[e].bar = Len(ohlcv_data) /\ prev[e].bar > 0 =>
                  ~prev[e].executed /\ Untouched(e)
            /\ prev[e].bar > 0 /\ prev[e].bar < Len(ohlcv_data) =>
                  prev[e].price =
                      Num(ohlcv_data[prev[e].bar + 1].open
                            * (IF prev[e].signal = "buy"
                               THEN Scale + eng[e].slippage_rate
                               ELSE IF prev[e].signal = "sell"
                               THEN Scale - eng[e].slippage_rate
                               ELSE Scale))
            /\ \A k \in 1..Len(Ledger(e)) :
                  LET rec == Ledger(e)[k]
                  IN  /\ rec.timestamp < Len(ohlcv_data)
                      /\ rec.price =
                            ohlcv_data[rec.timestamp + 1].open
                              * (IF rec.type \in {"buy_long", "cover_short"}
                                 THEN Scale + eng[e].slippage_rate
                                 ELSE Scale - eng[e].slippage_rate)

\* C7 witness: a buy or sell on the final bar was dropped by an engine that
\* holds a position opened at an earlier bar's next open.
NextOpenWitness ==
    \E e \in DOMAIN eng :
        /\ eng[e].execution_price_type = "next_open"
        /\ prev[e].bar = Len(ohlcv_data)
        /\ prev[e].signal \in {"buy", "sell"}
        /\ eng[e].current_position_qty # 0
        /\ Len(Ledger(e)) > 0

AllHold == \A k \in 1..Len(strategy_signals) : strategy_signals[k] = "hold"

\* C8: when the strategy emits only hold, after run the ledger is empty,
\* every row has cash = portfolio_value = initial_capital, and
\* final_portfolio_value = initial_capital.
FlatStartFlatEnd ==
    \A e \in DOMAIN eng :
        AllHold /\ eng[e].pc = "done" =>
            /\ Ledger(e) = <<>>
            /\ \A k \in 1..Len(eng[e].positions_df) :
                  /\ eng[e].positions_df[k].cash = Num(eng[e].initial_capital)
                  /\ eng[e].positions_df[k].portfolio_value
                        = Num(eng[e].initial_capital)
            /\ returned[e][Len(returned[e])].final_portfolio_value
                  = eng[e].initial_capital
            /\ returned[e][Len(returned[e])].trade_log = eng[e].trade_log

\* C8 witness: a run over a full-length all-hold series has returned.
FlatWitness ==
    \E e \in DOMAIN eng :
        /\ AllHold
        /\ eng[e].pc = "done"
        /\ Len(ohlcv_data) = MaxBars
        /\ eng[e].initial_capital > 0

\* what a results record says: its metrics, and the contents of its ledger
ResultValue(res) == [res EXCEPT !.trade_log = lists[res.trade_log]]

\* C9: two engines constructed on identical bars, strategy and configuration
\* and each run once return identical results records (ledger record for
\* record, the metrics, and the valuation rows the other metrics reduce).
Determinism ==
    \A e1 \in DOMAIN eng : \A e2 \in DOMAIN eng :
        eng[e1].pc = "done" /\ eng[e2].pc = "done" =>
            /\ ResultValue(returned[e1][1]) = ResultValue(returned[e2][1])
            /\ eng[e1].positions_df = eng[e2].positions_df

\* C9 witness: both engines have returned, with a closed trade in the ledger.
DeterminismWitness ==
    /\ \A e \in DOMAIN eng : eng[e].pc = "done"
    /\ Cardinality(DOMAIN eng) = 2
    /\ \A e \in DOMAIN eng : returned[e][1].num_closed_trades > 0

\* C10: every invocation of run starts from cash = initial_capital, position
\* 0, average entry price 0 and an empty ledger, and two runs of one engine
\* return equal results records.
FreshStatePerRun ==
    \A e \in DOMAIN eng :
        /\ eng[e].pc = "loop" /\ eng[e].i = 1 =>
              /\ eng[e].current_cash = eng[e].initial_capital
              /\ eng[e].current_position_qty = 0
              /\ eng[e].avg_entry_price = 0
              /\ Ledger(e) = <<>>
        /\ Len(returned[e]) >= 2 => returned[e][1] = returned[e][2]

\* ---------------------------------------------------------------- C11
\* the value a ledger record trades: price * size
RecordValue(rec) == TradeValue(rec.size, rec.price)

\* C11: every trade record, opening or closing, has
\* commission = abs(price * size) * commission_rate, and commission >= 0.
CommissionLaw ==
    \A e \in DOMAIN eng : \A k \in 1..Len(Ledger(e)) :
        LET rec == Ledger(e)[k]
        IN  /\ rec.commission * Scale
                  = Abs(RecordValue(rec)) * eng[e].commission_rate
            /\ rec.commission >= 0

\* ---------------------------------------------------------------- C12
\* the record before record k is the leg of the given type that opened the
\* position record k closes
OpenedBy(log, k, type) == k > 1 /\ log[k - 1].type = type

\* C12: an opening record (buy_long, sell_short) has pnl = 0; a sell_long has
\* pnl = size * (price - entry) - commission and a cover_short has
\* pnl = size * (entry - price) - commission, where entry is the execution
\* price of the leg that opened the position and commission is the closing
\* leg's own.
RealizedPnlPerLeg ==
    \A e \in DOMAIN eng : \A k \in 1..Len(Ledger(e)) :
        LET log == Ledger(e)
            rec == log[k]
            own == CalculateCommission(eng[e], RecordValue(rec))
        IN  /\ rec.type \in {"buy_long", "sell_short"} => rec.pnl = 0
            /\ rec.type = "sell_long" =>
                  /\ OpenedBy(log, k, "buy_long")
                  /\ rec.commission = own
                  /\ rec.pnl = TradeValue(rec.size, rec.price - log[k - 1].price)
                                  - own
            /\ rec.type = "cover_short" =>
                  /\ OpenedBy(log, k, "sell_short")
                  /\ rec.commission = own
                  /\ rec.pnl = TradeValue(rec.size, log[k - 1].price - rec.price)
                                  - own

\* a ledger with a closed long and a closed short, both charged a commission
RealizedPnlWitness ==
    \E e \in DOMAIN eng :
        /\ \E k \in 1..Len(Ledger(e)) :
              Ledger(e)[k].type = "sell_long" /\ Ledger(e)[k].commission > 0
        /\ \E k \in 1..Len(Ledger(e)) :
              Ledger(e)[k].type = "cover_short" /\ Ledger(e)[k].commission > 0

\* ---------------------------------------------------------------- C13
\* the price a record logged at bar ts was meant to trade at, unslipped
IntendedPrice(e, ts) ==
    IF eng[e].execution_price_type = "close"
    THEN ohlcv_data[ts].close
    ELSE ohlcv_data[ts + 1].open

BuySide == {"buy_long", "cover_short"}
SellSide == {"sell_long", "sell_short"}

\* C13: the intended price of a trade is the bar's close under "close" and
\* the next bar's open under "next_open"; buy-side legs execute at
\* intended * (1 + slippage_rate), sell-side legs at
\* intended * (1 - slippage_rate); with slippage_rate >= 0 a buy never
\* executes below, and a sell never above, the intended price.
ExecutionPriceLaw ==
    \A e \in DOMAIN eng : \A k \in 1..Len(Ledger(e)) :
        LET rec == Ledger(e)[k]
            slip == eng[e].slippage_rate
        IN  /\ rec.type \in BuySide \cup SellSide
            /\ eng[e].execution_price_type = "next_open" =>
                  rec.timestamp < Len(ohlcv_data)
            /\ rec.type \in BuySide =>
                  /\ rec.price = IntendedPrice(e, rec.timestamp) * (Scale + slip)
                  /\ slip >= 0 =>
                        rec.price >= IntendedPrice(e, rec.timestamp) * Scale
            /\ rec.type \in SellSide =>
                  /\ rec.price = IntendedPrice(e, rec.timestamp) * (Scale - slip)
                  /\ slip >= 0 =>
                        rec.price <= IntendedPrice(e, rec.timestamp) * Scale

\* all four kinds of leg logged by an engine with slippage, and a leg of each
\* side priced off its intended price
ExecutionPriceWitness ==
    \E e \in DOMAIN eng :
        /\ eng[e].slippage_rate > 0
        /\ \A type \in BuySide \cup SellSide :
              \E k \in 1..Len(Ledger(e)) : Ledger(e)[k].type = type
        /\ \E k \in 1..Len(Ledger(e)) :
              /\ Ledger(e)[k].type \in BuySide
              /\ Ledger(e)[k].price
                    > IntendedPrice(e, Ledger(e)[k].timestamp) * Scale
        /\ \E k \in 1..Len(Ledger(e)) :
              /\ Ledger(e)[k].type \in SellSide
              /\ Ledger(e)[k].price
                    < IntendedPrice(e, Ledger(e)[k].timestamp) * Scale

\* ---------------------------------------------------------------- C14
\* the strategy returned a number of signals other than the number of bars
Mismatch == Len(strategy_signals) # Len(ohlcv_data)

\* C14: when the strategy's signal list has not the length of the bar series,
\* every call of run raises (ValueError) before it processes a bar: it never
\* enters the loop and returns nothing, no row is written, no trade record is
\* appended, and cash, position and average entry price stay as constructed.
MismatchRaises ==
    \A e \in DOMAIN eng :
        Mismatch =>
            /\ eng[e].pc \in {"idle", "raised"}
            /\ eng[e].runs > 0 =>
                  eng[e].pc = "raised" /\ eng[e].error = "ValueError"
            /\ returned[e] = <<>>
            /\ Ledger(e) = <<>>
            /\ \A k \in 1..Len(eng[e].positions_df) :
                  eng[e].positions_df[k] = EmptyRow
            /\ eng[e].current_cash = eng[e].initial_capital
            /\ eng[e].current_position_qty = 0
            /\ eng[e].avg_entry_price = 0

\* run has raised twice on a series of two bars with one buy signal, the
\* engine able to afford the trade it never made
MismatchWitness ==
    \E e \in DOMAIN eng :
        /\ Len(ohlcv_data) = 2
        /\ strategy_signals = <<"buy">>
        /\ eng[e].initial_capital > 0
        /\ eng[e].default_position_size > 0
        /\ eng[e].pc = "raised"
        /\ eng[e].runs = 2

\* ---------------------------------------------------------------- C15
\* the record the last completed run of engine e returned
LastReturned(e) == returned[e][Len(returned[e])]

\* C15: the record run returns has final_portfolio_value equal to the last
\* row's portfolio_value, and on a series of zero bars (the strategy
\* returning zero signals) run returns a record whose final_portfolio_value
\* is initial_capital, rather than failing.
FinalValueAnySeries ==
    \A e \in DOMAIN eng :
        /\ eng[e].pc = "done" /\ Len(ohlcv_data) > 0 =>
              LastReturned(e).final_portfolio_value
                  = Val(eng[e].positions_df[Len(ohlcv_data)].portfolio_value)
        /\ Len(ohlcv_data) = 0 /\ ~Mismatch /\ eng[e].runs > 0 =>
              /\ eng[e].pc = "done"
              /\ LastReturned(e).final_portfolio_value = eng[e].initial_capital

\* ---------------------------------------------------------------- C16
\* C16: in the record run returns, num_closed_trades is the number of trade
\* records with pnl # 0, winning_trades + losing_trades = num_closed_trades,
\* and win_rate_pct = winning_trades / num_closed_trades * 100 when a trade
\* closed and 0 otherwise.
ClosedTradeMetrics ==
    \A e \in DOMAIN eng :
        eng[e].pc = "done" =>
            LET res == LastReturned(e)
                log == Ledger(e)
            IN  /\ res.num_closed_trades
                      = Cardinality({k \in 1..Len(log) : log[k].pnl # 0})
                /\ res.winning_trades + res.losing_trades
                      = res.num_closed_trades
                /\ res.win_rate_pct.den > 0
                /\ res.num_closed_trades > 0 =>
                      res.win_rate_pct.num * res.num_closed_trades
                          = res.winning_trades * 100 * res.win_rate_pct.den
                /\ res.num_closed_trades = 0 => res.win_rate_pct.num = 0

\* a returned record counting two closed trades or more, a winner among
\* them, over a ledger whose opening legs it does not count
ClosedTradeWitness ==
    \E e \in DOMAIN eng :
        /\ eng[e].pc = "done"
        /\ LastReturned(e).num_closed_trades > 1
        /\ LastReturned(e).winning_trades > 0
        /\ Len(Ledger(e)) > LastReturned(e).num_closed_trades

\* ---------------------------------------------------------------- C17
\* a quotient compares <= 0 (nan compares false with everything)
NonPositive(x) == x.kind = "-inf" \/ (x.kind = "num" /\ x.num <= 0)
IsZero(x) == x.kind = "num" /\ x.num = 0

\* the portfolio_value of every row is above that of the row before
StrictlyIncreasing(df) ==
    \A k \in 2..Len(df) :
        Val(df[k].portfolio_value) > Val(df[k - 1].portfolio_value)

\* C17: for the portfolio_value series of a run, every element of
\* (value - running_peak) / running_peak is <= 0, hence max_drawdown_pct <= 0,
\* and a strictly increasing series yields max_drawdown_pct = 0.
DrawdownSign ==
    \A e \in DOMAIN eng :
        eng[e].pc = "done" =>
            LET df == eng[e].positions_df
                res == LastReturned(e)
            IN  /\ \A k \in 1..Len(df) : NonPositive(Drawdown(df)[k])
                /\ NonPositive(res.max_drawdown_pct)
                /\ StrictlyIncreasing(df) => IsZero(res.max_drawdown_pct)

\* ---------------------------------------------------------------- C18
\* the caller's import has ended, with the entry loaded or with an error
Answered == call.pc \notin {"none", "import"}
\* the caller's frame has the four essential columns
Complete == call.columns = EssentialCols

\* C18: for every bar series, generate_signals of OrderBlockEntry and of
\* FairValueGapEntry returns a sequence of exactly len(bars) elements, each
\* one of buy, sell and hold.
StrategyOutputContract ==
    call.entry \in Strategies /\ Answered =>
        /\ call.pc = "returned"
        /\ Len(call.result) = Len(ohlcv_data)
        /\ \A k \in 1..Len(call.result) : call.result[k] \in SignalValues

\* ---------------------------------------------------------------- C19
\* C19: OrderBlockEntry given fewer than 2 bars and FairValueGapEntry given
\* fewer than 3 bars return an all-hold sequence of length len(bars), and do
\* not fail.
BelowMinimumAllHold ==
    /\ call.entry \in Strategies
    /\ Len(ohlcv_data) < MinimumBars[call.entry]
    /\ Answered
    => /\ call.error = "none"
       /\ call.pc = "returned"
       /\ call.result = [k \in 1..Len(ohlcv_data) |-> "hold"]

\* ---------------------------------------------------------------- C20
\* strength_factor, the default 1.2 of identify_order_blocks
StrengthFactor == [num |-> 6, den |-> 5]
Body(candle) == Abs(candle.open - candle.close)
\* curr_body > prev_body * strength_factor
Stronger(prev_candle, curr_candle) ==
    Body(curr_candle) * StrengthFactor.den
        > Body(prev_candle) * StrengthFactor.num

BullishCondition(prev_candle, curr_candle) ==
    /\ prev_candle.close < prev_candle.open
    /\ curr_candle.close > curr_candle.open
    /\ curr_candle.close > prev_candle.high
    /\ Stronger(prev_candle, curr_candle)

BearishCondition(prev_candle, curr_candle) ==
    /\ prev_candle.close > prev_candle.open
    /\ curr_candle.close < curr_candle.open
    /\ curr_candle.low < prev_candle.low
    /\ Stronger(prev_candle, curr_candle)

\* the block of the pair whose first candle is bar k
BlockOf(k, is_bullish) ==
    [start_time |-> k, end_time |-> k,
     high |-> ohlcv_data[k].high, low |-> ohlcv_data[k].low,
     is_bullish |-> is_bullish]

\* C20: identify_order_blocks emits a block for an adjacent pair (prev, curr)
\* exactly when the bullish or the bearish condition holds of it; the block
\* has start_time = end_time = prev's timestamp, prev's high and low and the
\* matching flag; no block is emitted for any other pair.
OrderBlockDetection ==
    call.entry = "identify_order_blocks" /\ Complete /\ Answered =>
        /\ call.pc = "returned"
        /\ {call.result[n] : n \in 1..Len(call.result)}
              = {BlockOf(k, TRUE) : k \in
                    {k \in 1..(Len(ohlcv_data) - 1) :
                        BullishCondition(ohlcv_data[k], ohlcv_data[k + 1])}}
                \cup
                {BlockOf(k, FALSE) : k \in
                    {k \in 1..(Len(ohlcv_data) - 1) :
                        BearishCondition(ohlcv_data[k], ohlcv_data[k + 1])}}

\* ---------------------------------------------------------------- C21
\* the gaps of the three bars that start at bar i: a bullish one when the
\* first bar's low is above the third bar's high, else a bearish one when the
\* first bar's high is below the third bar's low, else none
GapOf(i) ==
    LET c0 == ohlcv_data[i]
        c2 == ohlcv_data[i + 2]
    IN  IF c0.low > c2.high
        THEN << [start_time |-> i, end_time |-> i + 2,
                 high |-> c0.low, low |-> c2.high, is_bullish |-> TRUE] >>
        ELSE IF c0.high < c2.low
        THEN << [start_time |-> i, end_time |-> i + 2,
                 high |-> c2.low, low |-> c0.high, is_bullish |-> FALSE] >>
        ELSE << >>

\* the gaps a detector returned for the bars starting at bar i
GapsAt(gaps, i) == SelectSeq(gaps, LAMBDA gap : gap.start_time = i)

\* C21: identify_fair_value_gaps returns the empty list for fewer than 3
\* bars; otherwise, for every first bar i, it emits exactly one bullish gap
\* (low = third bar's high, high = first bar's low) when the first bar's low
\* is above the third bar's high, else exactly one bearish gap (low = first
\* bar's high, high = third bar's low) when the first bar's high is below the
\* third bar's low, else nothing, whatever the middle bar; every gap has
\* start_time = first bar < end_time = third bar, and low < high.
FairValueGapDetection ==
    call.entry = "identify_fair_value_gaps" /\ Complete /\ Answered =>
        /\ call.pc = "returned"
        /\ Len(ohlcv_data) < 3 => call.result = << >>
        /\ \A i \in 1..(Len(ohlcv_data) - 2) :
              GapsAt(call.result, i) = GapOf(i)
        /\ \A n \in 1..Len(call.result) :
              /\ call.result[n].start_time \in 1..(Len(ohlcv_data) - 2)
              /\ call.result[n].end_time = call.result[n].start_time + 2
              /\ call.result[n].low < call.result[n].high

\* ---------------------------------------------------------------- C22
\* C22: identify_order_blocks and identify_fair_value_gaps, given a series
\* that after the normalisation of its column names lacks one of open, high,
\* low and close, raise a data error (ValueError) to the caller and return
\* no result.
DetectorsRejectMalformed ==
    call.entry \in Detectors /\ ~Complete /\ Answered =>
        /\ call.pc = "raised"
        /\ call.error = "ValueError"
        /\ call.result = << >>

\* ---------------------------------------------------------------- C23
\* the active zone a bar of the trace names, of the direction asked for
ActiveBullish(k) == call.zones[Val(call.trace[k].active_bullish)]
ActiveBearish(k) == call.zones[Val(call.trace[k].active_bearish)]
\* the bar's range overlaps the zone's
Touches(candle, zone) == candle.low <= zone.high /\ candle.high >= zone.low

\* the conditions of the four branches of OrderBlockEntry at bar k
LongEntryDue(k) ==
    /\ call.trace[k].before \in {"none", "short"}
    /\ call.trace[k].active_bullish # NaN
    /\ Touches(ohlcv_data[k], ActiveBullish(k))
ShortEntryDue(k) ==
    /\ call.trace[k].before \in {"none", "long"}
    /\ call.trace[k].active_bearish # NaN
    /\ Touches(ohlcv_data[k], ActiveBearish(k))
ExitLongDue(k) ==
    /\ call.trace[k].before = "long"
    /\ call.trace[k].active_bearish # NaN
    /\ ohlcv_data[k].high >= ActiveBearish(k).low
ExitShortDue(k) ==
    /\ call.trace[k].before = "short"
    /\ call.trace[k].active_bullish # NaN
    /\ ohlcv_data[k].low <= ActiveBullish(k).high

\* the first branch, in the order of the code, whose condition holds
BranchDue(k) ==
    IF LongEntryDue(k) THEN "long_entry"
    ELSE IF ShortEntryDue(k) THEN "short_entry"
    ELSE IF ExitLongDue(k) THEN "exit_long"
    ELSE IF ExitShortDue(k) THEN "exit_short"
    ELSE "none"

\* what a branch emits, and the position it leaves
SignalOf(branch) ==
    IF branch \in {"long_entry", "exit_short"} THEN "buy"
    ELSE IF branch \in {"short_entry", "exit_long"} THEN "sell"
    ELSE "hold"
PositionAfter(branch, before) ==
    IF branch = "long_entry" THEN "long"
    ELSE IF branch = "short_entry" THEN "short"
    ELSE IF branch \in {"exit_long", "exit_short"} THEN "none"
    ELSE before

\* the loop of generate_signals went through every bar
Traced == Len(call.trace) = Len(ohlcv_data) /\ Len(call.result) = Len(ohlcv_data)

\* C23: at each bar OrderBlockEntry tries long entry, short entry, exit long
\* and exit short in that order and at most one fires: the branch that fires
\* is the first whose condition holds, and the signal and the position are
\* that branch's; when the strategy is flat and both active blocks overlap the
\* bar's range, the signal is buy and the position becomes long.
FirstMatchWins ==
    call.entry = "OrderBlockEntry" /\ Len(ohlcv_data) >= 2 /\ Answered =>
        /\ call.pc = "returned"
        /\ Traced
        /\ \A k \in 1..Len(ohlcv_data) :
              /\ call.trace[k].branch = BranchDue(k)
              /\ call.result[k] = SignalOf(call.trace[k].branch)
              /\ call.trace[k].position
                    = PositionAfter(call.trace[k].branch, call.trace[k].before)
              /\ /\ call.trace[k].before = "none"
                 /\ LongEntryDue(k)
                 /\ ShortEntryDue(k)
                 => call.result[k] = "buy" /\ call.trace[k].position = "long"

\* ---- FairValueGapEntry: the entry conditions ----

\* the default entry_fill_ratio, 0.1, in basis points
EntryFillRatio == 1000

\* which gaps have a filled_time when bar k is evaluated: what the bar before
\* left, and nothing at the first bar
FilledBefore(k) ==
    IF k = 1 THEN [z \in DOMAIN call.zones |-> NaN] ELSE call.trace[k - 1].filled
\* FairValueGap.filled of the active gaps at bar k
BullishUnfilled(k) ==
    /\ call.trace[k].active_bullish # NaN
    /\ FilledBefore(k)[Val(call.trace[k].active_bullish)] = NaN
BearishUnfilled(k) ==
    /\ call.trace[k].active_bearish # NaN
    /\ FilledBefore(k)[Val(call.trace[k].active_bearish)] = NaN

\* entry_target_price, times Scale: entry_fill_ratio of the gap's height below
\* the top of a bullish gap, above the bottom of a bearish one
BullishTarget(zone) == zone.high * Scale - (zone.high - zone.low) * EntryFillRatio
BearishTarget(zone) == zone.low * Scale + (zone.high - zone.low) * EntryFillRatio

\* the bar's low is in the bullish gap at or below the target; the bar's high
\* is in the bearish gap at or above the target
EntersBullish(candle, zone) ==
    candle.low * Scale <= BullishTarget(zone) /\ candle.low >= zone.low
EntersBearish(candle, zone) ==
    candle.high * Scale >= BearishTarget(zone) /\ candle.high <= zone.high

\* generate_signals answered one signal per bar, and its loop went through
\* every bar unless the series is shorter than the strategy's minimum
Evaluated ==
    /\ Len(call.result) = Len(ohlcv_data)
    /\ Len(call.trace) = IF Len(ohlcv_data) >= MinimumBars[call.entry]
                          THEN Len(ohlcv_data) ELSE 0

\* C24: while FairValueGapEntry is flat or short with an active unfilled
\* bullish gap, it emits buy at a bar exactly when the bar's low is at or below
\* the gap's high minus entry_fill_ratio of its height and at or above the
\* gap's low; while it is flat or long with an active unfilled bearish gap and
\* no buy fired, it emits sell exactly when the bar's high is at or above the
\* gap's low plus entry_fill_ratio of its height and at or below the gap's high.
EntryTrigger ==
    call.entry = "FairValueGapEntry" /\ Answered =>
        /\ call.pc = "returned"
        /\ Evaluated
        /\ \A k \in DOMAIN call.trace :
              /\ call.trace[k].before \in {"none", "short"} /\ BullishUnfilled(k)
                 => (call.result[k] = "buy"
                        <=> EntersBullish(ohlcv_data[k],
                                          call.zones[Val(call.trace[k].active_bullish)]))
              /\ /\ call.trace[k].before \in {"none", "long"}
                 /\ BearishUnfilled(k)
                 /\ call.result[k] # "buy"
                 => (call.result[k] = "sell"
                        <=> EntersBearish(ohlcv_data[k],
                                          call.zones[Val(call.trace[k].active_bearish)]))

\* ---- the engine on a strategy's signals ----

\* an engine in close mode whose cash covers every entry of the series
AmpleCapital == 12
FundedEngine ==
    NewEngine(1, ohlcv_data,
              [initial_capital |-> AmpleCapital, commission_bps |-> 0,
               slippage_bps |-> 0, default_position_size |-> 1,
               execution_price_type |-> "close"])

RECURSIVE EngineAfter(_, _)
\* the working fields of FundedEngine after the first k bars of run on signals
EngineAfter(signals, k) ==
    IF k = 0
    THEN Working(FundedEngine, <<>>)
    ELSE LET last == EngineAfter(signals, k - 1)
             en == [FundedEngine EXCEPT !.current_cash = last.cash,
                                        !.current_position_qty = last.qty,
                                        !.avg_entry_price = last.avg]
             st == Working(en, last.log)
             price == Val(GetExecutionPrice(en, ohlcv_data, k, signals[k]))
             close == ohlcv_data[k].close
         IN  IF signals[k] = "buy" THEN BuySignal(en, st, price, k, close)
             ELSE IF signals[k] = "sell" THEN SellSignal(en, st, price, k, close)
             ELSE st

\* the strategy's word for the side of a position quantity
SideOf(qty) == IF qty > 0 THEN "long" ELSE IF qty < 0 THEN "short" ELSE "none"

\* C25: when the engine, in close mode with cash always sufficient, executes
\* the signals of OrderBlockEntry or FairValueGapEntry, after every bar the
\* side of the engine's position is the strategy's own position at that bar
\* (long: qty > 0, short: qty < 0, none: qty = 0); so an exit signal that
\* takes the strategy to 'none' leaves the engine flat.
PositionAgreement ==
    call.entry \in Strategies /\ Answered =>
        /\ call.pc = "returned"
        /\ Evaluated
        /\ \A k \in DOMAIN call.trace :
              SideOf(EngineAfter(call.result, k).qty) = call.trace[k].position

\* ---- the strategies and the bars they have not seen yet ----

\* the caller also asked for the signals of every prefix of the series:
\* prefixes[k] is generate_signals of the first k bars
Prefixed ==
    /\ Len(call.prefixes) = Len(ohlcv_data)
    /\ \A k \in DOMAIN call.prefixes : Len(call.prefixes[k]) = k

\* the signal at every bar is the one the strategy gives when the series ends
\* at that bar, so it is a function of the bars up to it
PrefixDetermined ==
    Prefixed /\ \A k \in DOMAIN call.prefixes : call.result[k] = call.prefixes[k][k]

\* the last candle an order block is computed from: the one after its own
ConfirmedAt(block) == block.start_time + 1

\* C26: OrderBlockEntry uses only completed candles: an order block that is
\* active at bar i was formed by candles up to the previous candle, and the
\* signal at bar i is a function of bars 0..i alone (two series that agree on
\* bars 0..i give the same signal at i).
OrderBlockNoLookAhead ==
    call.entry = "OrderBlockEntry" /\ Answered =>
        /\ call.pc = "returned"
        /\ Evaluated
        /\ \A k \in DOMAIN call.trace :
              /\ call.trace[k].active_bullish # NaN => ConfirmedAt(ActiveBullish(k)) < k
              /\ call.trace[k].active_bearish # NaN => ConfirmedAt(ActiveBearish(k)) < k
        /\ PrefixDetermined

\* the gap that is active at bar k, bullish or bearish
ActiveGaps(k) ==
    {call.zones[Val(cell)] :
        cell \in {call.trace[k].active_bullish, call.trace[k].active_bearish} \ {NaN}}

\* C27: FairValueGapEntry has no look-ahead: a gap that is active at bar i has
\* its end_time (its third candle) strictly before bar i, and the signal at
\* bar i is a function of bars 0..i alone (two series that agree on bars 0..i
\* give the same signal at i).
FairValueGapNoLookAhead ==
    call.entry = "FairValueGapEntry" /\ Answered =>
        /\ call.pc = "returned"
        /\ Evaluated
        /\ \A k \in DOMAIN call.trace : \A gap \in ActiveGaps(k) : gap.end_time < k
        /\ PrefixDetermined

\* ---- what a signal does to the zone that triggered it ----

\* the bars at which a branch fired
Fired == {k \in DOMAIN call.trace : call.trace[k].branch # "none"}
\* the active zone whose condition the branch of bar k tested, and the active
\* zone of the other direction that the branch cleared with it
TriggerOf(k) ==
    IF call.trace[k].branch \in {"long_entry", "exit_short"}
    THEN call.trace[k].active_bullish
    ELSE call.trace[k].active_bearish
InvalidatedOf(k) ==
    IF call.trace[k].branch \in {"long_entry", "exit_short"}
    THEN call.trace[k].active_bearish
    ELSE call.trace[k].active_bullish

\* C28: in OrderBlockEntry an order block that triggered a signal (entry or
\* exit) at some bar is consumed and triggers no signal at any later bar, and
\* neither does the block of the opposite direction invalidated on that bar.
OrderBlockConsumption ==
    call.entry = "OrderBlockEntry" /\ Answered =>
        /\ call.pc = "returned"
        /\ Evaluated
        /\ \A j \in Fired : \A k \in Fired :
              j < k => TriggerOf(k) \notin {TriggerOf(j), InvalidatedOf(j)}

\* the gaps whose filled_time bar k wrote
MarkedAt(k) ==
    {z \in DOMAIN call.zones : call.trace[k].filled[z] # FilledBefore(k)[z]}

\* C29: in FairValueGapEntry every non-hold signal marks exactly one gap
\* filled, with filled_time the bar's timestamp, later than the gap's
\* end_time; a filled_time once set is never reset or overwritten; a filled
\* gap triggers no signal; so a run has at most as many non-hold signals as
\* detected gaps.
FillOneShot ==
    call.entry = "FairValueGapEntry" /\ Answered =>
        /\ call.pc = "returned"
        /\ Evaluated
        /\ \A k \in DOMAIN call.trace :
              /\ call.result[k] # "hold" =>
                    /\ Cardinality(MarkedAt(k)) = 1
                    /\ MarkedAt(k) = {Val(TriggerOf(k))}
                    /\ \A z \in MarkedAt(k) :
                          /\ call.trace[k].filled[z] = Num(k)
                          /\ call.zones[z].end_time < k
                    /\ FilledBefore(k)[Val(TriggerOf(k))] = NaN
              /\ \A z \in DOMAIN call.zones :
                    FilledBefore(k)[z] # NaN => call.trace[k].filled[z] = FilledBefore(k)[z]
        /\ Cardinality({k \in DOMAIN call.result : call.result[k] # "hold"})
              <= Len(call.zones)

\* ---- the engine: a buy that cannot be afforded ----

\* the records the last bar appended to the ledger of engine e
AppendedAtLastBar(e) ==
    {Ledger(e)[k] : k \in (prev[e].loglen + 1)..Len(Ledger(e))}

\* the last bar carried a buy, the engine was flat or short when it began (so
\* the buy came to the long entry), and the long entry was not made
LongEntryRefused(e) ==
    /\ Acted(e, "buy")
    /\ prev[e].qty <= 0
    /\ \A rec \in AppendedAtLastBar(e) : rec.type # "buy_long"

\* C30: a buy never partially executes: on a bar whose long entry is
\* unaffordable no leg executes, a short held at the start of the bar is not
\* covered, and cash, position quantity, average entry price and ledger are
\* unchanged by the bar.
BuyNeverPartial ==
    \A e \in DOMAIN eng : LongEntryRefused(e) => Untouched(e)

\* ---- the engine: positions and the ledger ----

OpeningLegs == {"buy_long", "sell_short"}
ClosingLegs == {"sell_long", "cover_short"}

\* C31: with default_position_size = s > 0 the position quantity is always
\* -s, 0 or +s; every opening leg starts from a flat position (it is the first
\* record or follows a closing leg), so the averaging branch of
\* avg_entry_price is never taken and the avg_entry_price of an open position
\* is the execution price of the leg that opened it.
NoPyramiding ==
    \A e \in DOMAIN eng :
        Size(e) > 0 =>
            /\ eng[e].current_position_qty \in {-Size(e), 0, Size(e)}
            /\ \A k \in 1..Len(Ledger(e)) :
                  Ledger(e)[k].type \in OpeningLegs =>
                      /\ k > 1 => Ledger(e)[k - 1].type \in ClosingLegs
                      /\ Ledger(e)[k].size = Size(e)
            /\ eng[e].current_position_qty # 0 =>
                  /\ Len(Ledger(e)) > 0
                  /\ LET opening == Ledger(e)[Len(Ledger(e))]
                     IN  /\ opening.type = IF eng[e].current_position_qty > 0
                                           THEN "buy_long" ELSE "sell_short"
                         /\ eng[e].avg_entry_price = opening.price

\* C31 witness: a sell has been processed by an engine that was short and
\* left it short by the one opening leg.
NoPyramidingWitness ==
    \E e \in DOMAIN eng :
        /\ Size(e) > 0
        /\ Acted(e, "sell")
        /\ prev[e].qty < 0
        /\ eng[e].current_position_qty = -Size(e)
        /\ Ledger(e)[Len(Ledger(e))].type = "sell_short"

\* the closing leg that matches an opening leg
ClosingOf(type) == IF type = "buy_long" THEN "sell_long" ELSE "cover_short"

\* C32: in the trade ledger of any run timestamps are non-decreasing and at
\* most two records share a bar; the first record is an opening leg; the
\* record after a buy_long is sell_long and the record after a sell_short is
\* cover_short, of the same size as the opening leg; a closing leg always has
\* its matching opening leg immediately before it.
LedgerWellFormed ==
    \A e \in DOMAIN eng :
        LET log == Ledger(e)
        IN  /\ \A k \in 1..(Len(log) - 1) : log[k].timestamp <= log[k + 1].timestamp
            /\ \A k \in 1..(Len(log) - 2) : log[k].timestamp < log[k + 2].timestamp
            /\ Len(log) > 0 => log[1].type \in OpeningLegs
            /\ \A k \in 1..(Len(log) - 1) :
                  log[k].type \in OpeningLegs =>
                      /\ log[k + 1].type = ClosingOf(log[k].type)
                      /\ log[k + 1].size = log[k].size
            /\ \A k \in 1..Len(log) :
                  log[k].type \in ClosingLegs =>
                      /\ k > 1
                      /\ log[k - 1].type \in OpeningLegs
                      /\ log[k].type = ClosingOf(log[k - 1].type)

\* the cash before the k-th record of a ledger: the record before it, or the
\* initial capital
CashBefore(e, k) ==
    IF k = 1 THEN eng[e].initial_capital ELSE Ledger(e)[k - 1].cash

\* the position a leg leaves: its size long or short, or flat after a close
QtyAfterLeg(rec) ==
    IF rec.type = "buy_long" THEN rec.size
    ELSE IF rec.type = "sell_short" THEN -rec.size
    ELSE 0

\* C33: each TradeRecord's cash is the previous record's cash (the initial
\* capital for the first) minus price * size + commission for buy_long and
\* cover_short, plus price * size - commission for sell_long and sell_short;
\* the engine's cash does not change on a bar that appends no record; each
\* record's portfolio_value is its cash plus the position after the leg times
\* the bar's close.
CashLedgerIdentity ==
    \A e \in DOMAIN eng :
        /\ \A k \in 1..Len(Ledger(e)) :
              LET rec == Ledger(e)[k]
              IN  /\ rec.type \in BuySide =>
                        rec.cash = CashBefore(e, k) - (RecordValue(rec) + rec.commission)
                  /\ rec.type \in SellSide =>
                        rec.cash = CashBefore(e, k) + (RecordValue(rec) - rec.commission)
                  /\ rec.portfolio_value
                        = rec.cash
                          + QtyAfterLeg(rec) * ohlcv_data[rec.timestamp].close * Unit
        /\ prev[e].bar > 0 /\ Len(Ledger(e)) = prev[e].loglen =>
              eng[e].current_cash = prev[e].cash
        /\ eng[e].current_cash = CashBefore(e, Len(Ledger(e)) + 1)

\* C33 witness: a ledger holds a sell_short, the cover_short of it and a
\* buy_long after that, with a commission charged.
CashLedgerWitness ==
    \E e \in DOMAIN eng :
        \E k \in 3..Len(Ledger(e)) :
            /\ Ledger(e)[k - 2].type = "sell_short"
            /\ Ledger(e)[k - 1].type = "cover_short"
            /\ Ledger(e)[k].type = "buy_long"
            /\ Ledger(e)[k].commission > 0

\* ---- the engine: realized pnl, rows against ledger ----

\* the records the current run of engine e appended to its ledger
RunRecords(e) == SubSeq(Ledger(e), prev[e].start + 1, Len(Ledger(e)))

RECURSIVE SumPnl(_, _)
\* the sum of the pnl field over the first k records of a ledger
SumPnl(log, k) == IF k = 0 THEN 0 ELSE SumPnl(log, k - 1) + log[k].pnl

\* the closing legs a run stamped with bar t
ClosingLegsAt(e, t) ==
    {k \in 1..Len(RunRecords(e)) :
        RunRecords(e)[k].timestamp = t /\ RunRecords(e)[k].type \in ClosingLegs}

\* C34: total_pnl_realized, the sum of the non-null trade_pnl of the rows,
\* equals the sum of the pnl field over all TradeRecords of the run, at most
\* one closing leg executing per bar.
RealizedPnlTotal ==
    \A e \in DOMAIN eng :
        eng[e].pc = "done" =>
            /\ LastReturned(e).total_pnl_realized
                  = SumPnl(RunRecords(e), Len(RunRecords(e)))
            /\ \A t \in 1..Len(ohlcv_data) : Cardinality(ClosingLegsAt(e, t)) <= 1

\* C34 witness: a run has returned whose records hold a closing leg with a
\* pnl and an opening leg after it.
RealizedPnlTotalWitness ==
    \E e \in DOMAIN eng :
        /\ eng[e].pc = "done"
        /\ \E k \in 1..(Len(RunRecords(e)) - 1) :
              /\ RunRecords(e)[k].type \in ClosingLegs
              /\ RunRecords(e)[k].pnl # 0

\* C35: final_portfolio_value - initial_capital matches the sum of trade pnl,
\* any difference coming only from the value of an open position: for every
\* run that ends flat, final_portfolio_value - initial_capital equals
\* total_pnl_realized.
PnlReconciliation ==
    \A e \in DOMAIN eng :
        eng[e].pc = "done" /\ eng[e].current_position_qty = 0 =>
            LastReturned(e).final_portfolio_value - LastReturned(e).initial_capital
                = LastReturned(e).total_pnl_realized

\* C36: num_closed_trades is the number of closing legs (sell_long and
\* cover_short records) of the trade ledger, every completed round trip being
\* counted once, and a bar's trade_pnl is non-null exactly when a closing leg
\* executed on that bar.
ClosedTradesAreRoundTrips ==
    \A e \in DOMAIN eng :
        eng[e].pc = "done" =>
            /\ LastReturned(e).num_closed_trades
                  = Cardinality({k \in 1..Len(Ledger(e)) :
                                    Ledger(e)[k].type \in ClosingLegs})
            /\ \A t \in 1..Len(ohlcv_data) :
                  eng[e].positions_df[t].trade_pnl # NaN
                      <=> ClosingLegsAt(e, t) # {}

\* ---- the engine: a bar without a trade signal ----

\* the last bar of engine e carried hold, or any value other than buy and sell
HeldBar(e) == prev[e].bar > 0 /\ prev[e].signal \notin {"buy", "sell"}

\* portfolio_value of row k of engine e
RowValue(e, k) == Val(eng[e].positions_df[k].portfolio_value)

\* C37: on a bar whose signal is hold (or any value other than buy and sell)
\* cash, position quantity, average entry price and ledger are unchanged, and
\* the bar's portfolio_value differs from the previous bar's by
\* position_qty * (close of the bar - close of the previous bar).
HoldIsMarkToMarket ==
    \A e \in DOMAIN eng :
        HeldBar(e) =>
            /\ Untouched(e)
            /\ prev[e].bar > 1 =>
                  RowValue(e, prev[e].bar) - RowValue(e, prev[e].bar - 1)
                      = eng[e].current_position_qty
                        * (ohlcv_data[prev[e].bar].close
                             - ohlcv_data[prev[e].bar - 1].close) * Unit

\* C37 witness: a hold on the second bar, at another close than the first,
\* of an engine holding a position.
HoldWitness ==
    \E e \in DOMAIN eng :
        /\ HeldBar(e)
        /\ prev[e].bar > 1
        /\ prev[e].executed
        /\ eng[e].current_position_qty # 0
        /\ ohlcv_data[prev[e].bar].close # ohlcv_data[prev[e].bar - 1].close

\* ---- identify_order_blocks: the shape of the result ----

\* C38: for any bar series identify_order_blocks emits at most one block per
\* adjacent pair, the bullish and the bearish condition never both holding of
\* a pair; so the result has at most len(bars) - 1 blocks, with start_time
\* strictly increasing along the list and never the last bar's timestamp.
OrderBlockShape ==
    call.entry = "identify_order_blocks" /\ Complete /\ Answered =>
        /\ call.pc = "returned"
        /\ \A k \in 1..(Len(ohlcv_data) - 1) :
              ~(/\ BullishCondition(ohlcv_data[k], ohlcv_data[k + 1])
                /\ BearishCondition(ohlcv_data[k], ohlcv_data[k + 1]))
        /\ Len(ohlcv_data) > 0 => Len(call.result) <= Len(ohlcv_data) - 1
        /\ \A n \in 1..(Len(call.result) - 1) :
              call.result[n].start_time < call.result[n + 1].start_time
        /\ \A n \in 1..Len(call.result) :
              call.result[n].start_time \in 1..(Len(ohlcv_data) - 1)

=============================================================================
